---- MODULE Spec2Model ----
(***************************************************************************)
(* Model of goaround: a fixed-capacity round-robin time-series database.   *)
(*                                                                         *)
(* db.go           Db, New, AddAt, moveForward, Len, Get, BoxTime          *)
(* persistence.go  gobDb, GobEncode, GobDecode                             *)
(*                                                                         *)
(* A time.Time is kept as its instant in whole seconds since the Unix      *)
(* epoch, the Location it is presented in and whether it carries a         *)
(* monotonic clock reading.  Bucket values are float32, kept as the three  *)
(* fields of their bit pattern [sign, exp, frac]; every operation rounds   *)
(* as IEEE 754 binary32 does.  All NaNs are the one value NaN.             *)
(*                                                                         *)
(* The Go specification lets an implementation fuse x*y + z into a single  *)
(* operation that rounds once (the compiler does so on arm64, ppc64le,     *)
(* s390x and riscv64, and does not on amd64).  fma is the choice the build *)
(* made for oldval*prevFill + v*curDuration: "none" rounds both products   *)
(* and the sum, "first" fuses the first product into the sum, "second"     *)
(* the second.  It is fixed when the program is built.                     *)
(*                                                                         *)
(* tz is the offset of the machine's local time zone, in seconds east of   *)
(* UTC.  It is fixed when the process starts.                              *)
(***************************************************************************)
EXTENDS Integers, FiniteSets, TLC

VARIABLES db, last, box, made, ret, gob, fma, tz

vars == <<db, last, box, made, ret, gob, fma, tz>>

(***************************************************************************)
(* Bounds of the model.                                                    *)
(***************************************************************************)
MaxRes == 4
MaxCap == 3
PreEpoch == 2
MaxTime == 3
MaxVal == 1
MaxChunk == 4
MaxBoxTime == 7
MaxGobRes == 1
MaxGobCap == 2
MaxGobTime == 1

Resolutions == 1..MaxRes
Capacities == 1..MaxCap
\* Timestamps drawn for AddAt: PreEpoch seconds before the epoch up to MaxTime.
Times == (0 - PreEpoch)..MaxTime
\* Values drawn for AddAt.
Inputs == {0, MaxVal}
Chunks == 1..MaxChunk
BoxTimes == (0 - MaxBoxTime)..MaxBoxTime

(***************************************************************************)
(* time.Time.  A value is [sec, loc, mono]: the instant in whole seconds   *)
(* since the Unix epoch, the Location the time is presented in, and        *)
(* whether the value carries a monotonic clock reading, as the values of   *)
(* time.Now() do.  Unix() reads the instant only, and so do Before and Sub *)
(* unless both times carry a monotonic reading, which the argument of      *)
(* AddAt, after t = t.UTC(), never does.  Go's == on two times, which is   *)
(* = on the records here, compares all three.  A Location is its name and  *)
(* its offset in seconds east of UTC; two Locations made by separate calls *)
(* are distinct values in Go, and carry distinct names here.               *)
(***************************************************************************)
\* time.UTC, the Location of a time whose loc pointer is nil.
utcLoc == [name |-> "UTC", offset |-> 0]

\* time.Local, the machine's zone.
localLoc == [name |-> "Local", offset |-> tz]

\* time.FixedZone(name, offset)
FixedZone(name, offset) == [name |-> name, offset |-> offset]

\* The zero time.Time (0001-01-01T00:00:00Z, loc nil, no monotonic reading)
\* held by currentStart, currentStop and lastEntry of a store made by New; it
\* lies before every timestamp the model draws.
ZeroTime == [sec |-> -1000000, loc |-> utcLoc, mono |-> FALSE]

\* time.Unix(sec, 0): a time in the local zone.
Unix(sec) == [sec |-> sec, loc |-> localLoc, mono |-> FALSE]

\* time.Now() at the instant sec: local zone, with a monotonic reading.
Now(sec) == [sec |-> sec, loc |-> localLoc, mono |-> TRUE]

\* t.UTC(): the same instant in UTC; setting the Location strips the
\* monotonic reading.
UTC(t) == [sec |-> t.sec, loc |-> utcLoc, mono |-> FALSE]

\* t.In(loc)
In(t, loc) == [sec |-> t.sec, loc |-> loc, mono |-> FALSE]

\* t.Before(u)
Before(t, u) == t.sec < u.sec

\* t.Sub(u).Seconds()
Sub(t, u) == t.sec - u.sec

\* t.Add(time.Duration(d) * time.Second): Location and monotonic reading stay.
Add(t, d) == [t EXCEPT !.sec = t.sec + d]

(***************************************************************************)
(* float32 values and their arithmetic (IEEE 754 binary32, round to        *)
(* nearest, ties to even).  The finite value of x is                       *)
(* (-1)^sign * Mant(x) * 2^Expo(x).  Intermediate results are kept exactly *)
(* in three 24-bit limbs <<h, m, l>> = h*2^48 + m*2^24 + l, with a sticky  *)
(* flag for a non-zero remainder below the lowest limb, and rounded once.  *)
(***************************************************************************)
NaN == [sign |-> 0, exp |-> 255, frac |-> 4194304]
PosInf == [sign |-> 0, exp |-> 255, frac |-> 0]
NegInf == [sign |-> 1, exp |-> 255, frac |-> 0]
Zero == [sign |-> 0, exp |-> 0, frac |-> 0]
NegZero == [sign |-> 1, exp |-> 0, frac |-> 0]

IsNaN(x) == x.exp = 255 /\ x.frac # 0
IsInf(x) == x.exp = 255 /\ x.frac = 0
IsFinite(x) == x.exp < 255
IsZero(x) == x.exp = 0 /\ x.frac = 0

Inf(s) == [sign |-> s, exp |-> 255, frac |-> 0]
SignedZero(s) == [sign |-> s, exp |-> 0, frac |-> 0]
Xor(s1, s2) == IF s1 = s2 THEN 0 ELSE 1

\* The significand (with the hidden bit of a normal number) and the
\* exponent of its lowest bit.
Mant(x) == IF x.exp = 0 THEN x.frac ELSE 8388608 + x.frac
Expo(x) == IF x.exp = 0 THEN -149 ELSE x.exp - 150

Abs(k) == IF k < 0 THEN 0 - k ELSE k

\* The number of bits of n >= 0.
RECURSIVE BitLen(_)
BitLen(n) == IF n = 0 THEN 0 ELSE 1 + BitLen(n \div 2)

\* The float32 with significand m <= 2^24 and lowest-bit exponent q; m is
\* below 2^23 only for q = -149 (subnormal or zero).
Pack(s, m, q) ==
    IF m = 16777216
    THEN (IF q + 151 >= 255 THEN Inf(s)
          ELSE [sign |-> s, exp |-> q + 151, frac |-> 0])
    ELSE IF m >= 8388608
    THEN (IF q + 150 >= 255 THEN Inf(s)
          ELSE [sign |-> s, exp |-> q + 150, frac |-> m - 8388608])
    ELSE [sign |-> s, exp |-> 0, frac |-> m]

\* m, or m + 1 when the remainder rem of the division by 2*half is more
\* than half, or is half and m is odd (ties to even); sticky marks a
\* non-zero tail below rem.
RoundHalfEven(m, rem, half, sticky) ==
    IF rem > half \/ (rem = half /\ (sticky \/ m % 2 = 1)) THEN m + 1 ELSE m

\* (sig + tail) * 2^(-r) rounded to an integer, 0 <= sig < 2^31.
Kept(sig, r, sticky) ==
    IF r <= 0 THEN sig * 2^(0 - r)
    ELSE IF r >= 31
    THEN (IF r = 31 /\ (sig > 1073741824 \/ (sig = 1073741824 /\ sticky))
          THEN 1 ELSE 0)
    ELSE RoundHalfEven(sig \div 2^r, sig % 2^r, 2^(r - 1), sticky)

\* The exponent of the lowest bit kept of a value of len bits whose lowest
\* bit has exponent e: 24 bits are kept, fewer below the normal range.
Quantum(e, len) == IF e + len - 24 > -149 THEN e + len - 24 ELSE -149

RoundAt(s, sig, e, sticky, q) == Pack(s, Kept(sig, q - e, sticky), q)

\* The float32 nearest to (-1)^s * (sig + tail) * 2^e, 0 <= sig < 2^31,
\* where tail is 0, or some value strictly between 0 and 1 when sticky.
Round(s, sig, e, sticky) == RoundAt(s, sig, e, sticky, Quantum(e, BitLen(sig)))

\* Three-limb naturals.
WZero == <<0, 0, 0>>

WBitLen(w) ==
    IF w[1] # 0 THEN 48 + BitLen(w[1])
    ELSE IF w[2] # 0 THEN 24 + BitLen(w[2])
    ELSE BitLen(w[3])

\* w * 2^k, for a result below 2^72.
WShl(w, k) ==
    LET n == k \div 24
        b == k % 24
        v == IF n = 0 THEN w
             ELSE IF n = 1 THEN <<w[2], w[3], 0>>
             ELSE <<w[3], 0, 0>>
        c == 2^(24 - b)
        p == 2^b
    IN  <<(v[1] % c) * p + v[2] \div c,
          (v[2] % c) * p + v[3] \div c,
          (v[3] % c) * p>>

\* w \div 2^k, and whether bits were shifted out.
WShr(w, k) ==
    IF k >= 72 THEN [w |-> WZero, sticky |-> w # WZero]
    ELSE LET n == k \div 24
             b == k % 24
             v == IF n = 0 THEN w
                  ELSE IF n = 1 THEN <<0, w[1], w[2]>>
                  ELSE <<0, 0, w[1]>>
             lost == IF n = 0 THEN FALSE
                     ELSE IF n = 1 THEN w[3] # 0
                     ELSE w[2] # 0 \/ w[3] # 0
             c == 2^(24 - b)
             p == 2^b
         IN  [w |-> <<v[1] \div p,
                      (v[1] % p) * c + v[2] \div p,
                      (v[2] % p) * c + v[3] \div p>>,
              sticky |-> lost \/ v[3] % p # 0]

WAdd(a, b) ==
    LET l == a[3] + b[3]
        m == a[2] + b[2] + l \div 16777216
        h == a[1] + b[1] + m \div 16777216
    IN  <<h, m % 16777216, l % 16777216>>

\* a - b, for a >= b.
WSub(a, b) ==
    LET l == a[3] - b[3]
        bl == IF l < 0 THEN 1 ELSE 0
        m == a[2] - b[2] - bl
        bm == IF m < 0 THEN 1 ELSE 0
        h == a[1] - b[1] - bm
    IN  <<h, m + bm * 16777216, l + bl * 16777216>>

WLess(a, b) ==
    \/ a[1] < b[1]
    \/ a[1] = b[1] /\ a[2] < b[2]
    \/ a[1] = b[1] /\ a[2] = b[2] /\ a[3] < b[3]

RoundWTo(s, r, e, sticky) ==
    Round(s, r.w[2] * 16777216 + r.w[3], e, sticky \/ r.sticky)

RoundWBy(s, w, e, sticky, sh) == RoundWTo(s, WShr(w, sh), e + sh, sticky)

\* The float32 nearest to (-1)^s * (w + tail) * 2^e: w is first cut to its
\* leading 30 bits.
RoundW(s, w, e, sticky) ==
    RoundWBy(s, w, e, sticky, IF WBitLen(w) > 30 THEN WBitLen(w) - 30 ELSE 0)

\* w * 2^(e - eb), cut to an integer when e < eb.
Align(w, e, eb) ==
    IF e >= eb THEN [w |-> WShl(w, e - eb), sticky |-> FALSE]
    ELSE WShr(w, eb - e)

\* big - (small.w + tail): with a tail, one less and a tail again.
WSubTail(big, small) ==
    IF small.sticky THEN WSub(WSub(big, small.w), <<0, 0, 1>>)
    ELSE WSub(big, small.w)

SumAligned(s1, a1, s2, a2, eb) ==
    IF s1 # s2 /\ a1.w = a2.w THEN Zero
    ELSE RoundW(IF s1 = s2 \/ WLess(a2.w, a1.w) THEN s1 ELSE s2,
                IF s1 = s2 THEN WAdd(a1.w, a2.w)
                ELSE IF WLess(a2.w, a1.w) THEN WSubTail(a1.w, a2)
                ELSE WSubTail(a2.w, a1),
                eb, a1.sticky \/ a2.sticky)

\* The exponent both operands are aligned to: the lower of e1 and e2, but
\* no more than 71 bits under the leading bit (t1, t2 are the exponents
\* just above the leading bits).
Bottom(e1, t1, e2, t2) ==
    LET low == IF e1 < e2 THEN e1 ELSE e2
        top == IF t1 > t2 THEN t1 ELSE t2
    IN  IF low > top - 71 THEN low ELSE top - 71

SumAt(s1, w1, e1, s2, w2, e2, eb) ==
    SumAligned(s1, Align(w1, e1, eb), s2, Align(w2, e2, eb), eb)

\* The float32 nearest to (-1)^s1 * w1 * 2^e1 + (-1)^s2 * w2 * 2^e2, for
\* w1, w2 non-zero and below 2^48: both are aligned in a 72-bit window
\* under the leading bit of the larger, then added or subtracted.
SumRound(s1, w1, e1, s2, w2, e2) ==
    SumAt(s1, w1, e1, s2, w2, e2,
          Bottom(e1, e1 + WBitLen(w1), e2, e2 + WBitLen(w2)))

\* float32(k) of an integer k.
F32(k) ==
    IF k = 0 THEN Zero ELSE Round(IF k < 0 THEN 1 ELSE 0, Abs(k), 0, FALSE)

\* The exact product of the significands of x and y.
Product(x, y) ==
    LET a == Mant(x) \div 4096
        b == Mant(x) % 4096
        c == Mant(y) \div 4096
        d == Mant(y) % 4096
        mid == a * d + b * c
        lo == b * d + (mid % 4096) * 4096
        hi == a * c + mid \div 4096 + lo \div 16777216
    IN  <<0, hi, lo % 16777216>>

\* x * y
FMul(x, y) ==
    IF IsNaN(x) \/ IsNaN(y) THEN NaN
    ELSE IF IsInf(x) \/ IsInf(y)
         THEN IF IsZero(x) \/ IsZero(y) THEN NaN ELSE Inf(Xor(x.sign, y.sign))
    ELSE IF IsZero(x) \/ IsZero(y) THEN SignedZero(Xor(x.sign, y.sign))
    ELSE RoundW(Xor(x.sign, y.sign), Product(x, y), Expo(x) + Expo(y), FALSE)

\* x + y
FAdd(x, y) ==
    IF IsNaN(x) \/ IsNaN(y) THEN NaN
    ELSE IF IsInf(x) /\ IsInf(y) THEN (IF x.sign = y.sign THEN x ELSE NaN)
    ELSE IF IsInf(x) THEN x
    ELSE IF IsInf(y) THEN y
    ELSE IF IsZero(x) /\ IsZero(y)
         THEN SignedZero(IF x.sign = y.sign THEN x.sign ELSE 0)
    ELSE IF IsZero(x) THEN y
    ELSE IF IsZero(y) THEN x
    ELSE SumRound(x.sign, <<0, 0, Mant(x)>>, Expo(x),
                  y.sign, <<0, 0, Mant(y)>>, Expo(y))

\* x*y + z rounded once (a fused multiply-add).
FMA(x, y, z) ==
    IF IsNaN(x) \/ IsNaN(y) \/ IsNaN(z) THEN NaN
    ELSE IF IsInf(x) \/ IsInf(y)
         THEN IF IsZero(x) \/ IsZero(y) THEN NaN
              ELSE IF IsInf(z) /\ z.sign # Xor(x.sign, y.sign) THEN NaN
              ELSE Inf(Xor(x.sign, y.sign))
    ELSE IF IsInf(z) THEN z
    ELSE IF IsZero(x) \/ IsZero(y)
         THEN IF IsZero(z)
              THEN SignedZero(IF z.sign = Xor(x.sign, y.sign) THEN z.sign ELSE 0)
              ELSE z
    ELSE IF IsZero(z)
         THEN RoundW(Xor(x.sign, y.sign), Product(x, y), Expo(x) + Expo(y), FALSE)
    ELSE SumRound(Xor(x.sign, y.sign), Product(x, y), Expo(x) + Expo(y),
                  z.sign, <<0, 0, Mant(z)>>, Expo(z))

\* Long division, three quotient bits a step: q*2^(3n) + (rem*2^(3n)) \div d.
RECURSIVE DivStep(_, _, _, _)
DivStep(q, rem, d, n) ==
    IF n = 0 THEN [q |-> q, rem |-> rem]
    ELSE DivStep(q * 8 + (rem * 8) \div d, (rem * 8) % d, d, n - 1)

\* mx * 2^ex / (my * 2^ey) rounded: both significands are first shifted
\* up to 24 bits (by sx, sy), then 27 quotient bits follow the first.
DivRound(s, mx, sx, ex, my, sy, ey) ==
    LET r == DivStep((mx * 2^sx) \div (my * 2^sy), (mx * 2^sx) % (my * 2^sy),
                     my * 2^sy, 9)
    IN  Round(s, r.q, (ex - sx) - (ey - sy) - 27, r.rem # 0)

\* x / y
FDiv(x, y) ==
    IF IsNaN(x) \/ IsNaN(y) THEN NaN
    ELSE IF IsInf(x)
         THEN IF IsInf(y) THEN NaN ELSE Inf(Xor(x.sign, y.sign))
    ELSE IF IsInf(y) THEN SignedZero(Xor(x.sign, y.sign))
    ELSE IF IsZero(y)
         THEN IF IsZero(x) THEN NaN ELSE Inf(Xor(x.sign, y.sign))
    ELSE IF IsZero(x) THEN SignedZero(Xor(x.sign, y.sign))
    ELSE DivRound(Xor(x.sign, y.sign),
                  Mant(x), 24 - BitLen(Mant(x)), Expo(x),
                  Mant(y), 24 - BitLen(Mant(y)), Expo(y))

(***************************************************************************)
(* timebox.go: BoxTime.                                                    *)
(***************************************************************************)
\* Go's % on int64: the remainder of the division truncated toward zero,
\* carrying the sign of the dividend.
GoRem(a, b) == IF a >= 0 THEN a % b ELSE 0 - ((0 - a) % b)

BoxTime(t, chunk) ==
    LET unix == t.sec
        rem == GoRem(unix, chunk)
        unix2 == unix - rem
    IN  [start |-> Unix(unix2), stop |-> Unix(unix2 + chunk)]

(***************************************************************************)
(* db.go: the store.                                                       *)
(***************************************************************************)
\* New with its two arguments taken in the other order.
New_Swapped(resolution, capacity) ==
    [res |-> capacity,
     entries |-> [i \in 0..(resolution - 1) |-> Zero],
     head |-> -1,
     tail |-> -1,
     currentStart |-> ZeroTime,
     currentStop |-> ZeroTime,
     lastEntry |-> ZeroTime]

New(resolution, capacity) ==
    [res |-> resolution,
     entries |-> [i \in 0..(capacity - 1) |-> Zero],
     head |-> -1,
     tail |-> -1,
     currentStart |-> ZeroTime,
     currentStop |-> ZeroTime,
     lastEntry |-> ZeroTime]

Res(d) == d.res

\* len(db.entries)
Capacity(d) == Cardinality(DOMAIN d.entries)

\* moveForward without the eviction: head stays when tail reaches it.
moveForward_NoEvict(d) ==
    LET tail1 == d.tail + 1
        tail2 == IF tail1 >= Capacity(d) THEN 0 ELSE tail1
        newTime == Add(d.currentStop, 1)
        b == BoxTime(newTime, d.res)
    IN  [d EXCEPT !.tail = tail2,
                  !.currentStart = b.start, !.currentStop = b.stop]

\* moveForward without the wrap of tail at the end of the slice.
moveForward_NoWrap(d) ==
    LET tail1 == d.tail + 1
        head1 == IF tail1 = d.head THEN d.head + 1 ELSE d.head
        head2 == IF tail1 = d.head /\ head1 >= Capacity(d) THEN 0 ELSE head1
        newTime == Add(d.currentStop, 1)
        b == BoxTime(newTime, d.res)
    IN  [d EXCEPT !.tail = tail1, !.head = head2,
                  !.currentStart = b.start, !.currentStop = b.stop]

\* moveForward moving head on every advance, full ring or not.
moveForward_AlwaysEvict(d) ==
    LET tail1 == d.tail + 1
        tail2 == IF tail1 >= Capacity(d) THEN 0 ELSE tail1
        head1 == d.head + 1
        head2 == IF head1 >= Capacity(d) THEN 0 ELSE head1
        newTime == Add(d.currentStop, 1)
        b == BoxTime(newTime, d.res)
    IN  [d EXCEPT !.tail = tail2, !.head = head2,
                  !.currentStart = b.start, !.currentStop = b.stop]

\* moveForward without the wrap of head at the end of the slice.
moveForward_HeadNoWrap(d) ==
    LET tail1 == d.tail + 1
        tail2 == IF tail1 >= Capacity(d) THEN 0 ELSE tail1
        head1 == IF tail2 = d.head THEN d.head + 1 ELSE d.head
        newTime == Add(d.currentStop, 1)
        b == BoxTime(newTime, d.res)
    IN  [d EXCEPT !.tail = tail2, !.head = head1,
                  !.currentStart = b.start, !.currentStop = b.stop]

moveForward(d) ==
    LET tail1 == d.tail + 1
        tail2 == IF tail1 >= Capacity(d) THEN 0 ELSE tail1
        head1 == IF tail2 = d.head THEN d.head + 1 ELSE d.head
        head2 == IF tail2 = d.head /\ head1 >= Capacity(d) THEN 0 ELSE head1
        newTime == Add(d.currentStop, 1)
        b == BoxTime(newTime, d.res)
    IN  [d EXCEPT !.tail = tail2, !.head = head2,
                  !.currentStart = b.start, !.currentStop = b.stop]

Len(d) ==
    IF d.tail = -1 THEN 0
    ELSE IF d.head <= d.tail THEN d.tail - d.head + 1
    ELSE Capacity(d) - d.head + d.tail + 1

\* The result of a Get call: a value, or a panic (the explicit one, or the
\* runtime's on a slice index outside 0..len-1).
Panic == [ok |-> FALSE, val |-> Zero]
Returns(x) == [ok |-> TRUE, val |-> x]
Index(d, j) == IF j \in DOMAIN d.entries THEN Returns(d.entries[j]) ELSE Panic

\* Get reading the physical slot i, whatever head is.
Get_IgnoresHead(d, i) ==
    IF i >= Len(d) THEN Panic ELSE Index(d, i)

\* Get without the step back to slot 0 when head + i passes the end.
Get_NoWrapBack(d, i) ==
    IF i >= Len(d) THEN Panic ELSE Index(d, d.head + i)

\* Get letting i == Len() through (i > Len() instead of i >= Len()).
Get_OffByOne(d, i) ==
    IF i > Len(d) THEN Panic
    ELSE IF d.head <= d.tail THEN Index(d, d.head + i)
    ELSE LET j == d.head + i
         IN  IF j < Capacity(d) THEN Index(d, j)
             ELSE Index(d, j - Capacity(d))

Get(d, i) ==
    IF i >= Len(d) THEN Panic
    ELSE IF d.head <= d.tail THEN Index(d, d.head + i)
    ELSE LET j == d.head + i
         IN  IF j < Capacity(d) THEN Index(d, j)
             ELSE Index(d, j - Capacity(d))

\* (oldval*prevFill + v*curDuration) / (prevFill + curDuration), the sum of
\* the products as the build evaluates it.
WeightedMean(oldval, prevFill, v, curDuration) ==
    LET sum == CASE fma = "none" ->
                      FAdd(FMul(oldval, prevFill), FMul(v, curDuration))
                 [] fma = "first" ->
                      FMA(oldval, prevFill, FMul(v, curDuration))
                 [] fma = "second" ->
                      FMA(v, curDuration, FMul(oldval, prevFill))
    IN  FDiv(sum, FAdd(prevFill, curDuration))

\* AddAtEmpty starting the box at t itself instead of the aligned t0.
AddAtEmpty_Unaligned(d, v, t) ==
    [d EXCEPT !.tail = 0, !.head = 0,
              !.entries = [d.entries EXCEPT ![0] = v],
              !.currentStart = t,
              !.currentStop = Add(t, d.res),
              !.lastEntry = t]

\* AddAt, the store is empty: create the first entry.
AddAtEmpty(d, v, t) ==
    LET b == BoxTime(t, d.res)
        t0 == UTC(b.start)
        t1 == UTC(b.stop)
    IN  [d EXCEPT !.tail = 0, !.head = 0,
                  !.entries = [d.entries EXCEPT ![0] = v],
                  !.currentStart = t0,
                  !.currentStop = t1,
                  !.lastEntry = t]

\* AddAtSame taking the plain average of the old and the new value.
AddAtSame_SimpleAverage(d, v, t) ==
    LET oldval == d.entries[d.tail]
        newval == FDiv(FAdd(oldval, v), F32(2))
    IN  [d EXCEPT !.entries = [d.entries EXCEPT ![d.tail] = newval],
                  !.lastEntry = t]

\* AddAtSame writing the mean to the head slot instead of the tail slot.
AddAtSame_SlotHead(d, v, t) ==
    LET prevFill == F32(Sub(d.lastEntry, d.currentStart))
        curDuration == F32(Sub(t, d.lastEntry))
        oldval == d.entries[d.tail]
        newval == WeightedMean(oldval, prevFill, v, curDuration)
    IN  [d EXCEPT !.entries = [d.entries EXCEPT ![d.head] = newval],
                  !.lastEntry = t]

\* AddAt, t is still in tail's timebox.
AddAtSame(d, v, t) ==
    LET prevFill == F32(Sub(d.lastEntry, d.currentStart))
        curDuration == F32(Sub(t, d.lastEntry))
        oldval == d.entries[d.tail]
        newval == WeightedMean(oldval, prevFill, v, curDuration)
    IN  [d EXCEPT !.entries = [d.entries EXCEPT ![d.tail] = newval],
                  !.lastEntry = t]

\* AddAtOneForward weighting the new value by t - lastEntry, as the
\* same-timebox case does, instead of by currentStop - lastEntry.
AddAtOneForward_WeightToT(d, v, t) ==
    LET prevFill == F32(Sub(d.lastEntry, d.currentStart))
        curDuration == F32(Sub(t, d.lastEntry))
        oldval == d.entries[d.tail]
        newval == WeightedMean(oldval, prevFill, v, curDuration)
        d1 == [d EXCEPT !.entries = [d.entries EXCEPT ![d.tail] = newval]]
        d2 == moveForward(d1)
    IN  [d2 EXCEPT !.entries = [d2.entries EXCEPT ![d2.tail] = v],
                   !.lastEntry = t]

\* AddAt, t is exactly one timebox forward.
AddAtOneForward(d, v, t) ==
    LET prevFill == F32(Sub(d.lastEntry, d.currentStart))
        curDuration == F32(Sub(d.currentStop, d.lastEntry))
        oldval == d.entries[d.tail]
        newval == WeightedMean(oldval, prevFill, v, curDuration)
        d1 == [d EXCEPT !.entries = [d.entries EXCEPT ![d.tail] = newval]]
        d2 == moveForward(d1)
    IN  [d2 EXCEPT !.entries = [d2.entries EXCEPT ![d2.tail] = v],
                   !.lastEntry = t]

\* The catch-up loop running one box past the one that reaches t.
RECURSIVE CatchUp_OneMore(_, _)
CatchUp_OneMore(d, t) ==
    IF Before(d.currentStop, Add(t, d.res))
    THEN LET d1 == moveForward(d)
         IN  CatchUp_OneMore([d1 EXCEPT !.entries = [d1.entries EXCEPT ![d1.tail] = Zero]], t)
    ELSE d

\* The catch-up loop: for db.currentStop.Before(t) { moveForward; fill 0 }
RECURSIVE CatchUp(_, _)
CatchUp(d, t) ==
    IF Before(d.currentStop, t)
    THEN LET d1 == moveForward(d)
         IN  CatchUp([d1 EXCEPT !.entries = [d1.entries EXCEPT ![d1.tail] = Zero]], t)
    ELSE d

\* AddAt, t is more than one timebox forward.
AddAtCatchUp(d, v, t) ==
    LET d1 == CatchUp(d, t)
    IN  [d1 EXCEPT !.entries = [d1.entries EXCEPT ![d1.tail] = v],
                   !.lastEntry = t]

\* AddAt without the "rewrite history" check.
AddAt_NoHistoryCheck(d, v, t) ==
    IF d.tail = -1 THEN AddAtEmpty(d, v, UTC(t))
    ELSE IF Before(UTC(t), d.currentStop) THEN AddAtSame(d, v, UTC(t))
    ELSE IF Before(UTC(t), Add(d.currentStop, d.res))
         THEN AddAtOneForward(d, v, UTC(t))
    ELSE AddAtCatchUp(d, v, UTC(t))

\* AddAt: t = t.UTC() first, then the case the store and t are in.
AddAt(d, v, t) ==
    IF d.tail = -1 THEN AddAtEmpty(d, v, UTC(t))
    ELSE IF Before(UTC(t), d.lastEntry) THEN d
    ELSE IF Before(UTC(t), d.currentStop) THEN AddAtSame(d, v, UTC(t))
    ELSE IF Before(UTC(t), Add(d.currentStop, d.res))
         THEN AddAtOneForward(d, v, UTC(t))
    ELSE AddAtCatchUp(d, v, UTC(t))

\* The path AddAt takes through its conditions (history only).
Branch(d, t) ==
    IF d.tail = -1 THEN "empty"
    ELSE IF Before(t, d.lastEntry) THEN "reject"
    ELSE IF Before(t, d.currentStop) THEN "same"
    ELSE IF Before(t, Add(d.currentStop, d.res)) THEN "one"
    ELSE "multi"

\* The number of moveForward calls AddAt makes (history only).
RECURSIVE Iterations(_, _)
Iterations(d, t) ==
    IF Before(d.currentStop, t) THEN 1 + Iterations(moveForward(d), t) ELSE 0

Advances(d, t) ==
    IF Branch(d, t) = "one" THEN 1
    ELSE IF Branch(d, t) = "multi" THEN Iterations(d, t)
    ELSE 0

\* The stores the catch-up loop calls moveForward on (history only).
RECURSIVE LoopStores(_, _)
LoopStores(d, t) ==
    IF Before(d.currentStop, t)
    THEN LET d1 == moveForward(d)
         IN  {d} \cup LoopStores([d1 EXCEPT !.entries = [d1.entries EXCEPT ![d1.tail] = Zero]], t)
    ELSE {}

\* The stores AddAt(v, t) calls moveForward on (history only): the store
\* with its tail bucket closed in the one-timebox-forward case, the stores
\* of the loop in the catch-up case.
MoveCalls(d, v, t) ==
    IF Branch(d, t) = "one"
    THEN {[d EXCEPT !.entries = [d.entries EXCEPT ![d.tail] =
              WeightedMean(d.entries[d.tail],
                           F32(Sub(d.lastEntry, d.currentStart)),
                           v, F32(Sub(d.currentStop, d.lastEntry)))]]}
    ELSE IF Branch(d, t) = "multi" THEN LoopStores(d, t)
    ELSE {}

(***************************************************************************)
(* persistence.go: the store as a gob.                                     *)
(*                                                                         *)
(* The bytes GobEncode returns are kept as the tuple of the values the     *)
(* encoder was given, <<version, struct>>; << >> is the empty input and    *)
(* <<version>> a stream cut after the version.  encoding/gob is kept by    *)
(* what it does to a struct: a field holding its zero value is left out    *)
(* and decodes to the zero value, a signed integer travels as an unsigned  *)
(* one with the sign in the lowest bit, slice elements are always sent,    *)
(* and a time.Time travels as Time.MarshalBinary writes it: the seconds    *)
(* since year 1 and the zone offset in minutes, -1 standing for UTC.  The  *)
(* monotonic reading and the Location itself are not written.  The zones   *)
(* of the model have offsets of whole minutes.                             *)
(***************************************************************************)
gobDbGobVersion == 1

\* new(Db): every field holds its zero value; entries is the nil slice.
ZeroDb ==
    [res |-> 0,
     entries |-> [i \in {} |-> Zero],
     head |-> 0,
     tail |-> 0,
     currentStart |-> ZeroTime,
     currentStop |-> ZeroTime,
     lastEntry |-> ZeroTime]

\* gob's signed integer on the wire, and back.
IntWire(k) == IF k < 0 THEN 2 * (0 - k) - 1 ELSE 2 * k
WireInt(u) == IF u % 2 = 1 THEN 0 - ((u + 1) \div 2) ELSE u \div 2

\* Go's / on int: the quotient truncated toward zero.
GoQuo(a, b) == IF a >= 0 THEN a \div b ELSE 0 - ((0 - a) \div b)

\* What an Encode call gives: the value written, or the error.
Wrote(w) == [w |-> w, err |-> "nil"]
Failed(err) == [w |-> 0, err |-> err]

\* Time.MarshalBinary, which gob calls for a time.Time: a zone offset of -1
\* minute cannot be told from the mark for UTC and is refused, as is one
\* outside int16.
MarshalBinary(t) ==
    IF t.loc = utcLoc
    THEN Wrote([sec |-> t.sec - ZeroTime.sec, offsetMin |-> -1])
    ELSE IF \/ GoQuo(t.loc.offset, 60) < -32768
            \/ GoQuo(t.loc.offset, 60) = -1
            \/ GoQuo(t.loc.offset, 60) > 32767
         THEN Failed("Time.MarshalBinary: unexpected zone offset")
    ELSE Wrote([sec |-> t.sec - ZeroTime.sec,
                offsetMin |-> GoQuo(t.loc.offset, 60)])

\* Time.UnmarshalBinary: the instant, in UTC when the offset is the mark for
\* UTC, in time.Local when the offset is the local zone's, and otherwise in
\* a new FixedZone("", offset).  The result has no monotonic reading.
UnmarshalBinary(w) ==
    IF w.offsetMin * 60 = -60
    THEN In(Unix(w.sec + ZeroTime.sec), utcLoc)
    ELSE IF w.offsetMin * 60 = localLoc.offset
         THEN In(Unix(w.sec + ZeroTime.sec), localLoc)
    ELSE In(Unix(w.sec + ZeroTime.sec), FixedZone("", w.offsetMin * 60))

\* gobDb{db.res, db.entries, db.head, db.tail, db.currentStart,
\*       db.currentStop, db.lastEntry}
gobDb(d) ==
    [Res |-> d.res, Entries |-> d.entries, Head |-> d.head, Tail |-> d.tail,
     CurrentStart |-> d.currentStart, CurrentStop |-> d.currentStop,
     LastEntry |-> d.lastEntry]

\* The fields of a gobDb that do not hold their zero value, by field number.
Sent(g) ==
    {f \in 1..7 :
        \/ f = 1 /\ g.Res # 0
        \/ f = 2 /\ DOMAIN g.Entries # {}
        \/ f = 3 /\ g.Head # 0
        \/ f = 4 /\ g.Tail # 0
        \/ f = 5 /\ g.CurrentStart # ZeroTime
        \/ f = 6 /\ g.CurrentStop # ZeroTime
        \/ f = 7 /\ g.LastEntry # ZeroTime}

\* The encoding of field f of a gobDb.
EncodeField(g, f) ==
    CASE f = 1 -> Wrote(IntWire(g.Res))
      [] f = 2 -> Wrote(g.Entries)
      [] f = 3 -> Wrote(IntWire(g.Head))
      [] f = 4 -> Wrote(IntWire(g.Tail))
      [] f = 5 -> MarshalBinary(g.CurrentStart)
      [] f = 6 -> MarshalBinary(g.CurrentStop)
      [] f = 7 -> MarshalBinary(g.LastEntry)

\* enc.Encode(d): the fields sent, each as written; the error of the first
\* field that cannot be encoded, if there is one.
EncodeStruct(g) ==
    LET bad == {f \in Sent(g) : EncodeField(g, f).err # "nil"}
    IN  IF bad = {}
        THEN Wrote([f \in Sent(g) |-> EncodeField(g, f).w])
        ELSE Failed(EncodeField(g, CHOOSE f \in bad :
                                      \A h \in bad : f <= h).err)

\* enc.Encode(gobDbGobVersion): a byte is always encodable.
EncodeVersion(v) == Wrote(v)

\* dec.Decode(&d) into a zero gobDb.
DecodeStruct(w) ==
    [Res |-> IF 1 \in DOMAIN w THEN WireInt(w[1]) ELSE 0,
     Entries |-> IF 2 \in DOMAIN w THEN w[2] ELSE [i \in {} |-> Zero],
     Head |-> IF 3 \in DOMAIN w THEN WireInt(w[3]) ELSE 0,
     Tail |-> IF 4 \in DOMAIN w THEN WireInt(w[4]) ELSE 0,
     CurrentStart |-> IF 5 \in DOMAIN w THEN UnmarshalBinary(w[5])
                      ELSE ZeroTime,
     CurrentStop |-> IF 6 \in DOMAIN w THEN UnmarshalBinary(w[6])
                     ELSE ZeroTime,
     LastEntry |-> IF 7 \in DOMAIN w THEN UnmarshalBinary(w[7])
                   ELSE ZeroTime]

\* GobEncode: the bytes and the error returned; no bytes (nil) with the
\* error of the Encode call that failed.
GobEncode(d) ==
    IF EncodeVersion(gobDbGobVersion).err # "nil"
    THEN [b |-> << >>, err |-> EncodeVersion(gobDbGobVersion).err]
    ELSE IF EncodeStruct(gobDb(d)).err # "nil"
         THEN [b |-> << >>, err |-> EncodeStruct(gobDb(d)).err]
    ELSE [b |-> <<EncodeVersion(gobDbGobVersion).w, EncodeStruct(gobDb(d)).w>>,
          err |-> "nil"]

\* The assignments at the end of GobDecode.
Assign(d, g) ==
    [d EXCEPT !.res = g.Res, !.entries = g.Entries, !.head = g.Head,
              !.tail = g.Tail, !.currentStart = g.CurrentStart,
              !.currentStop = g.CurrentStop, !.lastEntry = g.LastEntry]

\* GobDecode assigning the fields whatever the version is.
GobDecode_NoVersionCheck(d, b) ==
    IF DOMAIN b = {} THEN [db |-> d, err |-> "rrdb.GobDecode: no data"]
    ELSE IF 2 \notin DOMAIN b THEN [db |-> d, err |-> "EOF"]
    ELSE [db |-> Assign(d, DecodeStruct(b[2])), err |-> "nil"]

\* GobDecode: the receiver afterwards and the error returned.
GobDecode(d, b) ==
    IF DOMAIN b = {} THEN [db |-> d, err |-> "rrdb.GobDecode: no data"]
    ELSE IF b[1] # gobDbGobVersion
         THEN [db |-> d, err |-> "rrdb.GobDecode: unknown version"]
    ELSE IF 2 \notin DOMAIN b THEN [db |-> d, err |-> "EOF"]
    ELSE [db |-> Assign(d, DecodeStruct(b[2])), err |-> "nil"]

(***************************************************************************)
(* The store's behaviours: New(res, cap), then any sequence of AddAt, Get  *)
(* and Len calls.  last records the latest call: its path, arguments and   *)
(* the store before; ret the index and the result of the latest Get or     *)
(* Len; made the arguments New was called with.                            *)
(***************************************************************************)
\* Indices drawn for Get: a negative one, valid ones and ones past the end.
Indices == (0 - 1)..MaxCap

NoRet == [i |-> 0, out |-> Panic, n |-> 0]

NoGob == [pc |-> "idle", b |-> << >>, input |-> << >>, recv |-> ZeroDb,
          out |-> ZeroDb, err |-> "nil"]

Idle == [pc |-> "idle", t |-> 0, chunk |-> 1, start |-> 0, stop |-> 0]

\* The ways a build may evaluate the sum of the two products.
Fusions == {"none", "first", "second"}

\* The local zone's offsets drawn: UTC+0 and UTC+1.
LocalOffsets == {0, 3600}

\* AddAt reads no zone offset: one local zone stands for all.
Init ==
    /\ fma \in Fusions
    /\ tz = 0
    /\ \E r \in Resolutions, c \in Capacities :
          /\ db = New(r, c)
          /\ made = [resolution |-> r, capacity |-> c]
    /\ last = [op |-> "New", v |-> Zero, t |-> ZeroTime, pre |-> db, adv |-> 0]
    /\ box = Idle
    /\ ret = NoRet
    /\ gob = NoGob

\* AddAt(v, t) with t = time.Unix(sec, 0).
AddAtOp ==
    \E x \in Inputs, sec \in Times :
        /\ db' = AddAt(db, F32(x), Unix(sec))
        /\ last' = [op |-> Branch(db, Unix(sec)), v |-> F32(x),
                    t |-> Unix(sec), pre |-> db,
                    adv |-> Advances(db, Unix(sec))]
        /\ ret' = NoRet
        /\ UNCHANGED <<box, made, gob, fma, tz>>

\* Get assigns no field of the store.
GetOp ==
    \E i \in Indices :
        /\ ret' = [i |-> i, out |-> Get(db, i), n |-> 0]
        /\ last' = [op |-> "Get", v |-> Zero, t |-> ZeroTime, pre |-> db,
                    adv |-> 0]
        /\ UNCHANGED <<db, box, made, gob, fma, tz>>

\* Len assigns no field of the store.
LenOp ==
    /\ ret' = [i |-> 0, out |-> Panic, n |-> Len(db)]
    /\ last' = [op |-> "Len", v |-> Zero, t |-> ZeroTime, pre |-> db, adv |-> 0]
    /\ UNCHANGED <<db, box, made, gob, fma, tz>>

Next == AddAtOp \/ GetOp \/ LenOp

Spec == Init /\ [][Next]_vars

(***************************************************************************)
(* BoxTime alone: every (t, chunk) of the bounded sets, then the call.     *)
(***************************************************************************)
InitBox ==
    /\ fma = "none"
    /\ tz = 0
    /\ db = New(1, 1)
    /\ made = [resolution |-> 1, capacity |-> 1]
    /\ last = [op |-> "New", v |-> Zero, t |-> ZeroTime, pre |-> db, adv |-> 0]
    /\ ret = NoRet
    /\ gob = NoGob
    /\ \E t \in BoxTimes, c \in Chunks :
          box = [pc |-> "call", t |-> t, chunk |-> c, start |-> 0, stop |-> 0]

BoxTimeOp ==
    /\ box.pc = "call"
    /\ box' = [box EXCEPT !.pc = "done",
                          !.start = BoxTime(Unix(box.t), box.chunk).start.sec,
                          !.stop = BoxTime(Unix(box.t), box.chunk).stop.sec]
    /\ UNCHANGED <<db, last, made, ret, gob, fma, tz>>

NextBox == BoxTimeOp

SpecBox == InitBox /\ [][NextBox]_vars

(***************************************************************************)
(* The codec alone: a store whose fields were set directly, GobEncode,     *)
(* then GobDecode of those bytes or of a bad input into a receiver.        *)
(***************************************************************************)
\* Entry values: a float32 travels as the float64 of the same value and
\* converts back exactly.
GobValues == {Zero, F32(7)}

\* How the three times of a store were made: by AddAt on an empty store
\* (all UTC), by AddAt after moveForward (the box in time.Local, lastEntry in
\* UTC), from time.Now() as TestDataRoundtrip does, or from times in a zone
\* of the caller's, one hour east or one minute west of UTC.
GobClocks == {"UTC", "moveForward", "Now", "east", "west"}

\* A time of the current box / the time of the last entry, made that way.
BoxClock(k, sec) ==
    CASE k = "UTC" -> UTC(Unix(sec))
      [] k = "moveForward" -> Unix(sec)
      [] k = "Now" -> Now(sec)
      [] k = "east" -> In(Unix(sec), FixedZone("east", 3600))
      [] k = "west" -> In(Unix(sec), FixedZone("west", -60))
EntryClock(k, sec) ==
    IF k = "moveForward" THEN UTC(Unix(sec)) ELSE BoxClock(k, sec)

\* The times a field is set to: left as New made it, or made the way k.
BoxTimesSet(k) == {ZeroTime} \cup {BoxClock(k, sec) : sec \in 0..MaxGobTime}
EntryTimesSet(k) == {ZeroTime} \cup {EntryClock(k, sec) : sec \in 0..MaxGobTime}

GobStores ==
    UNION {[res : 0..MaxGobRes,
            entries : [0..(c - 1) -> GobValues],
            head : -1..(c - 1),
            tail : -1..(c - 1),
            currentStart : BoxTimesSet(k),
            currentStop : BoxTimesSet(k),
            lastEntry : EntryTimesSet(k)] :
           c \in 1..MaxGobCap, k \in GobClocks}

\* A fresh receiver, new(Db), and one that already holds data.
GobReceivers == {ZeroDb, AddAt(New(1, 1), F32(1), Unix(0))}

\* What GobDecode is given: the bytes of GobEncode, no bytes, the stream cut
\* after the version, and the payload under a version other than 1.
GobInputs(b) ==
    {b, << >>, <<gobDbGobVersion>>, <<0, b[2]>>, <<gobDbGobVersion + 1, b[2]>>}

InitGob ==
    /\ fma = "none"
    /\ tz \in LocalOffsets
    /\ db \in GobStores
    /\ made = [resolution |-> db.res, capacity |-> Capacity(db)]
    /\ last = [op |-> "New", v |-> Zero, t |-> ZeroTime, pre |-> db, adv |-> 0]
    /\ box = Idle
    /\ ret = NoRet
    /\ gob = [NoGob EXCEPT !.pc = "start"]

\* GobEncode on the store; without bytes there is nothing to decode.
GobEncodeOp ==
    /\ gob.pc = "start"
    /\ gob' = [gob EXCEPT !.pc = IF GobEncode(db).err = "nil" THEN "encoded"
                                 ELSE "failed",
                          !.b = GobEncode(db).b,
                          !.err = GobEncode(db).err]
    /\ UNCHANGED <<db, last, box, made, ret, fma, tz>>

GobDecodeOp ==
    /\ gob.pc = "encoded"
    /\ \E input \in GobInputs(gob.b), recv \in GobReceivers :
          gob' = [gob EXCEPT !.pc = "decoded", !.input = input, !.recv = recv,
                             !.out = GobDecode(recv, input).db,
                             !.err = GobDecode(recv, input).err]
    /\ UNCHANGED <<db, last, box, made, ret, fma, tz>>

NextGob == GobEncodeOp \/ GobDecodeOp

SpecGob == InitGob /\ [][NextGob]_vars

(***************************************************************************)
(* Properties.  Where a claim orders times or measures between them, it    *)
(* is their instants, t.sec, that are compared.                            *)
(***************************************************************************)
\* An AddAt call has been made; last.pre is the store it was made on.
Called == last.op \in {"empty", "reject", "same", "one", "multi"}
Pre == last.pre
NonEmpty(d) == d.tail # -1

\* The claims' three cases of AddAt on a non-empty store, by their own
\* conditions on t.
SameBucketCall ==
    Called /\ NonEmpty(Pre) /\ Pre.lastEntry.sec <= last.t.sec
           /\ last.t.sec < Pre.currentStop.sec
OneForwardCall ==
    Called /\ NonEmpty(Pre) /\ Pre.currentStop.sec <= last.t.sec
           /\ last.t.sec < Pre.currentStop.sec + Pre.res
MultiForwardCall ==
    Called /\ NonEmpty(Pre) /\ last.t.sec >= Pre.currentStop.sec + Pre.res

\* The greatest multiple of res that is <= t.
Floor(t, res) == t - (t % res)

\* (old*pw + v*nw) / (pw + nw) in float32: the value with every operation
\* rounded, and the two with one product fused into the sum.
Unfused(old, pw, v, nw) ==
    FDiv(FAdd(FMul(old, pw), FMul(v, nw)), FAdd(pw, nw))
Means(old, pw, v, nw) ==
    {Unfused(old, pw, v, nw),
     FDiv(FMA(old, pw, FMul(v, nw)), FAdd(pw, nw)),
     FDiv(FMA(v, nw, FMul(old, pw)), FAdd(pw, nw))}

\* C1: for every chunk >= 1 and every t, negative ones included, BoxTime
\* returns the greatest multiple of chunk that is <= t as start and
\* start + chunk as stop, so start <= t < stop.
C1_BoxTimeIsFloor ==
    box.pc = "done" =>
        /\ box.start = Floor(box.t, box.chunk)
        /\ box.stop = box.start + box.chunk
        /\ box.start <= box.t
        /\ box.t < box.stop

\* C2: whenever the store is non-empty, currentStart <= lastEntry <
\* currentStop and the current box is res seconds long.
C2_LastEntryInCurrentBox ==
    NonEmpty(db) =>
        /\ db.currentStart.sec <= db.lastEntry.sec
        /\ db.lastEntry.sec < db.currentStop.sec
        /\ db.currentStop.sec - db.currentStart.sec = db.res

\* C3: AddAt on a non-empty store with t < lastEntry changes no field, so
\* Len and every Get return what they returned before.
C3_RejectLeavesStore ==
    (Called /\ NonEmpty(Pre) /\ last.t.sec < Pre.lastEntry.sec) =>
        /\ db = Pre
        /\ Len(db) = Len(Pre)
        /\ \A i \in 0..Capacity(db) : Get(db, i) = Get(Pre, i)

C3_Witness ==
    /\ Called /\ NonEmpty(Pre) /\ last.t.sec < Pre.lastEntry.sec
    /\ Len(Pre) >= 2
    /\ last.v # Pre.entries[Pre.tail]

\* C4: AddAt with t >= currentStop + res advances the ring until the current
\* box contains t, zero-fills one bucket per box skipped entirely, seeds the
\* new tail with v and sets lastEntry = t; also for t on a box boundary.
C4_CatchUpReachesBoxOfT ==
    MultiForwardCall =>
        LET skipped == (Floor(last.t.sec, Pre.res) - Pre.currentStop.sec)
                           \div Pre.res
        IN  /\ db.currentStart.sec <= last.t.sec
            /\ last.t.sec < db.currentStop.sec
            /\ db.lastEntry.sec = last.t.sec
            /\ db.entries[db.tail] = last.v
            /\ last.adv = skipped + 1
            /\ \A k \in 1..skipped :
                  k < Capacity(db) => Get(db, Len(db) - 1 - k) = Returns(Zero)

\* C5: AddAt with currentStop <= t < currentStop + res closes the tail
\* bucket with weight currentStop - lastEntry for v, advances the ring by one
\* position, seeds the new tail with v and sets lastEntry = t.
C5_OneForward ==
    OneForwardCall =>
        LET old == Pre.entries[Pre.tail]
            pw == F32(Pre.lastEntry.sec - Pre.currentStart.sec)
            nw == F32(Pre.currentStop.sec - Pre.lastEntry.sec)
            newtail == (Pre.tail + 1) % Capacity(Pre)
        IN  /\ last.adv = 1
            /\ db.tail = newtail
            /\ \E fin \in Means(old, pw, last.v, nw) :
                  /\ fma = "none" => fin = Unfused(old, pw, last.v, nw)
                  /\ db.entries = [[Pre.entries EXCEPT ![Pre.tail] = fin]
                                      EXCEPT ![newtail] = last.v]
            /\ db.lastEntry.sec = last.t.sec

C5_Witness ==
    /\ OneForwardCall
    /\ Capacity(db) >= 2
    /\ Pre.lastEntry.sec > Pre.currentStart.sec
    /\ Pre.lastEntry.sec < Pre.currentStop.sec
    /\ last.t.sec > Pre.currentStop.sec
    /\ db.entries[Pre.tail] # Pre.entries[Pre.tail]
    /\ db.entries[Pre.tail] # last.v

\* C6: AddAt with lastEntry <= t < currentStop replaces the tail bucket's
\* value old by (old*pw + v*nw) / (pw + nw), pw = lastEntry - currentStart,
\* nw = t - lastEntry, and sets lastEntry = t.
C6_SameBucketWeightedMean ==
    SameBucketCall =>
        LET old == Pre.entries[Pre.tail]
            pw == F32(Pre.lastEntry.sec - Pre.currentStart.sec)
            nw == F32(last.t.sec - Pre.lastEntry.sec)
        IN  /\ db.entries[db.tail] \in Means(old, pw, last.v, nw)
            /\ fma = "none" =>
                  db.entries[db.tail] = Unfused(old, pw, last.v, nw)
            /\ db.tail = Pre.tail
            /\ db.lastEntry.sec = last.t.sec

\* A same-bucket insert whose time-weighted mean is not the plain average.
C6_Witness ==
    /\ SameBucketCall
    /\ Pre.lastEntry.sec - Pre.currentStart.sec >= 1
    /\ last.t.sec - Pre.lastEntry.sec >= 1
    /\ Pre.lastEntry.sec - Pre.currentStart.sec # last.t.sec - Pre.lastEntry.sec
    /\ IsFinite(db.entries[db.tail])
    /\ db.entries[db.tail] # FDiv(FAdd(Pre.entries[Pre.tail], last.v), F32(2))

\* C7: AddAt on an empty store sets head = tail = 0, stores v in slot 0,
\* sets the current box to BoxTime(t, res) and lastEntry = t; then Len is 1
\* and Get(0) is v.
C7_FirstInsert ==
    (Called /\ Pre.head = -1 /\ Pre.tail = -1) =>
        /\ db.head = 0
        /\ db.tail = 0
        /\ db.entries = [Pre.entries EXCEPT ![0] = last.v]
        /\ db.currentStart.sec = BoxTime(last.t, Pre.res).start.sec
        /\ db.currentStop.sec = BoxTime(last.t, Pre.res).stop.sec
        /\ db.lastEntry.sec = last.t.sec
        /\ Len(db) = 1
        /\ Get(db, 0) = Returns(last.v)

C7_Witness ==
    /\ Called /\ Pre.head = -1 /\ Pre.tail = -1
    /\ last.v # Zero
    /\ db.currentStart.sec # last.t.sec
    /\ last.t.sec > 0

\* C8: 0 <= Len <= Capacity always; once Len has reached Capacity it stays
\* there after every insert, and every ring advance of such an insert moves
\* head forward by one modulo the capacity.
C8_LenBounded ==
    /\ 0 <= Len(db)
    /\ Len(db) <= Capacity(db)
    /\ (Called /\ Len(Pre) = Capacity(Pre)) =>
          /\ Len(db) = Capacity(db)
          /\ db.head = (Pre.head + last.adv) % Capacity(Pre)

C8_Witness ==
    /\ Called
    /\ Capacity(Pre) >= 2
    /\ Len(Pre) = Capacity(Pre)
    /\ last.adv >= 1
    /\ db.head # Pre.head

\* C9: when the ring is full and an insert advances it by one bucket, the
\* slot Get(0) read is overwritten and for 0 <= i < Capacity - 2 Get(i)
\* afterwards is Get(i+1) before; index Capacity-1 holds the seeded value
\* and, when the insert closed the previous tail bucket, index Capacity-2
\* holds that closed value.
C9_EvictionShifts ==
    (Called /\ Len(Pre) = Capacity(Pre) /\ last.adv = 1) =>
        LET cap == Capacity(Pre)
            old == Pre.entries[Pre.tail]
            pw == F32(Pre.lastEntry.sec - Pre.currentStart.sec)
            nw == F32(Pre.currentStop.sec - Pre.lastEntry.sec)
        IN  /\ db.tail = Pre.head
            /\ \A i \in 0..(cap - 3) :
                  Get(db, i).ok /\ Get(db, i) = Get(Pre, i + 1)
            /\ Get(db, cap - 1) = Returns(last.v)
            /\ (OneForwardCall /\ cap >= 2) =>
                  \E fin \in Means(old, pw, last.v, nw) :
                      Get(db, cap - 2) = Returns(fin)

C9_Witness ==
    /\ Called /\ Len(Pre) = Capacity(Pre) /\ last.adv = 1
    /\ OneForwardCall
    /\ Capacity(Pre) >= 3
    /\ db.head > db.tail
    /\ Get(db, 0) # Get(Pre, 0)
    /\ Get(db, 0) # Get(db, 1)

\* C10: head is -1 exactly when tail is -1, which is the empty store;
\* otherwise head and tail are both indices in 0..Capacity-1.
C10_HeadTailSentinel ==
    /\ (db.head = -1) <=> (db.tail = -1)
    /\ (db.tail = -1) <=> (Len(db) = 0)
    /\ NonEmpty(db) =>
          /\ db.head \in 0..(Capacity(db) - 1)
          /\ db.tail \in 0..(Capacity(db) - 1)

C10_Witness ==
    /\ NonEmpty(db)
    /\ db.head > db.tail
    /\ Capacity(db) >= 3

\* The latest call was Get(ret.i) / Len().
GetCalled == last.op = "Get"
LenCalled == last.op = "Len"

\* The stores the latest AddAt call advanced the ring from.
Moved == IF Called THEN MoveCalls(Pre, last.v, last.t) ELSE {}

\* C11: for 0 <= i < Len, Get(i) returns entries[(head + i) mod Capacity],
\* wrapped ring or not; Get and Len change no field of the store.
C11_GetReadsLogicalIndex ==
    /\ (GetCalled /\ 0 <= ret.i /\ ret.i < Len(Pre)) =>
          ret.out = Returns(Pre.entries[(Pre.head + ret.i) % Capacity(Pre)])
    /\ (GetCalled \/ LenCalled) => db = Pre

C11_Witness ==
    /\ GetCalled
    /\ 0 <= ret.i /\ ret.i < Len(Pre)
    /\ Pre.head > Pre.tail
    /\ Pre.head + ret.i >= Capacity(Pre)
    /\ ret.out.val # Pre.entries[Pre.head]

\* C12: Get(i) with i >= Len, empty store included, returns no value and
\* leaves every field of the store as it was.
C12_GetPastEndPanics ==
    (GetCalled /\ ret.i >= Len(Pre)) =>
        /\ ~ret.out.ok
        /\ db = Pre

C12_Witness ==
    /\ GetCalled
    /\ ret.i = Len(Pre)
    /\ Len(Pre) >= 1
    /\ Len(Pre) < Capacity(Pre)
    /\ ret.out = Panic

\* C15: New(res, cap) returns an empty store with Res() == res and
\* Capacity() == cap, Len() == 0, head == tail == -1; Res() and Capacity()
\* stay the same after any sequence of AddAt calls.
C15_NewIsEmpty ==
    /\ Res(db) = made.resolution
    /\ Capacity(db) = made.capacity
    /\ last.op = "New" => (Len(db) = 0 /\ db.head = -1 /\ db.tail = -1)

C15_Witness ==
    /\ Called
    /\ last.adv >= 2
    /\ made.resolution # made.capacity
    /\ Len(db) = Capacity(db)

\* C16: every moveForward on a non-empty store sets tail to
\* (tail + 1) mod Capacity, sets head to (head + 1) mod Capacity exactly when
\* the ring was full and leaves it alone otherwise, and writes no entry.
C16_AdvanceMovesTailAndHead ==
    \A m \in Moved :
        LET a == moveForward(m)
            cap == Capacity(m)
        IN  /\ NonEmpty(m)
            /\ a.tail = (m.tail + 1) % cap
            /\ Len(m) = cap => a.head = (m.head + 1) % cap
            /\ Len(m) # cap => a.head = m.head
            /\ a.entries = m.entries

\* One call that advances the ring while it is not yet full and again once
\* it is.
C16_Witness ==
    /\ Capacity(db) >= 2
    /\ \E m \in Moved : Len(m) < Capacity(m)
    /\ \E m \in Moved : Len(m) = Capacity(m) /\ moveForward(m).head # m.head

\* C17: the catch-up loop of AddAt strictly increases currentStop on every
\* iteration and makes no more ring advances than there are boxes from the
\* previous current box to the box containing t, however large the gap.
C17_CatchUpTerminates ==
    MultiForwardCall =>
        /\ \A m \in LoopStores(Pre, last.t) :
              moveForward(m).currentStop.sec > m.currentStop.sec
        /\ last.adv >= 1
        /\ last.adv <= (Floor(last.t.sec, Pre.res) - Pre.currentStart.sec)
                           \div Pre.res
        /\ db.tail = (Pre.tail + last.adv) % Capacity(Pre)
        /\ db.currentStop.sec >= last.t.sec

\* A catch-up with as many advances as the ring has slots.
C17_Witness ==
    /\ MultiForwardCall
    /\ last.adv >= Capacity(Pre)
    /\ Capacity(Pre) >= 2

\* C18: every ring advance, for every res >= 1, moves the current bucket to
\* the box that follows immediately: the new currentStart is the previous
\* currentStop and the new currentStop the previous currentStop + res.
C18_AdvanceToNextBox ==
    \A m \in Moved :
        /\ moveForward(m).currentStart.sec = m.currentStop.sec
        /\ moveForward(m).currentStop.sec = m.currentStop.sec + m.res

\* C19: every accepted same-bucket insert has a strictly positive total
\* weight (lastEntry - currentStart) + (t - lastEntry), and no bucket ever
\* holds a NaN.
C19_PositiveTotalWeight ==
    /\ SameBucketCall =>
          (Pre.lastEntry.sec - Pre.currentStart.sec)
              + (last.t.sec - Pre.lastEntry.sec) > 0
    /\ \A i \in DOMAIN db.entries : ~IsNaN(db.entries[i])

\* C20: Get(i) returns a value only for 0 <= i < Len; for every other i,
\* negative ones and a wrapped ring included, the call fails.
C20_GetOnlyInsideLen ==
    (GetCalled /\ ret.out.ok) => (0 <= ret.i /\ ret.i < Len(Pre))

\* C13: for every store, one whose fields were set directly included,
\* GobEncode returns bytes, and decoding them into a fresh Db succeeds and
\* gives a store with the same res, head, tail, currentStart, currentStop
\* and lastEntry (compared with ==, as Db.equals does), the same capacity
\* and the same entry at every physical index.
C13_GobRoundTrip ==
    /\ gob.pc # "failed"
    /\ (gob.pc = "decoded" /\ gob.input = gob.b /\ gob.recv = ZeroDb) =>
          /\ gob.err = "nil"
          /\ gob.out.res = db.res
          /\ gob.out.head = db.head
          /\ gob.out.tail = db.tail
          /\ gob.out.currentStart = db.currentStart
          /\ gob.out.currentStop = db.currentStop
          /\ gob.out.lastEntry = db.lastEntry
          /\ Capacity(gob.out) = Capacity(db)
          /\ \A i \in 0..(Capacity(db) - 1) :
                gob.out.entries[i] = db.entries[i]

\* C14: GobDecode of empty input, or of input whose version is not 1,
\* returns an error and leaves every field of the receiver as it was; no
\* field is assigned unless the version and the payload both decoded.
C14_BadInputLeavesReceiver ==
    gob.pc = "decoded" =>
        /\ (gob.input = << >> \/ gob.input[1] # 1) =>
              (gob.err # "nil" /\ gob.out = gob.recv)
        /\ gob.err # "nil" => gob.out = gob.recv

C14_Witness ==
    /\ gob.pc = "decoded"
    /\ gob.input # << >>
    /\ gob.input[1] = 2
    /\ gob.recv # ZeroDb
    /\ gob.out = gob.recv
    /\ db # gob.recv
    /\ db.res # 0

\* C21: a same-bucket insert (non-empty store, lastEntry <= t < currentStop)
\* changes only entries[tail] and lastEntry: head, tail, currentStart,
\* currentStop, Len and every other entry slot stay as they were.
C21_SameBucketFrame ==
    SameBucketCall =>
        /\ db.head = Pre.head
        /\ db.tail = Pre.tail
        /\ db.currentStart = Pre.currentStart
        /\ db.currentStop = Pre.currentStop
        /\ db.res = Pre.res
        /\ Len(db) = Len(Pre)
        /\ DOMAIN db.entries = DOMAIN Pre.entries
        /\ \A i \in DOMAIN Pre.entries :
              i # Pre.tail => db.entries[i] = Pre.entries[i]

\* A same-bucket insert into a ring of several buckets that does change the
\* tail slot and lastEntry.
C21_Witness ==
    /\ SameBucketCall
    /\ Len(Pre) >= 2
    /\ Pre.head # Pre.tail
    /\ db.entries[Pre.tail] # Pre.entries[Pre.tail]
    /\ db.entries[Pre.tail] # Pre.entries[Pre.head]
    /\ db.lastEntry # Pre.lastEntry

\* C22: reached from New by AddAt calls only, head is 0 whenever
\* 0 < Len < Capacity and (tail + 1) mod Capacity whenever Len == Capacity;
\* so head > tail only in a full ring.
C22_HeadPosition ==
    /\ (0 < Len(db) /\ Len(db) < Capacity(db)) => db.head = 0
    /\ (Len(db) = Capacity(db)) => db.head = (db.tail + 1) % Capacity(db)
    /\ (NonEmpty(db) /\ db.head > db.tail) => Len(db) = Capacity(db)

\* A full ring of three buckets advanced once more: head has left slot 0.
C22_Witness ==
    /\ Called
    /\ Capacity(db) >= 3
    /\ Len(Pre) = Capacity(Pre)
    /\ Pre.head = 0
    /\ Len(db) = Capacity(db)
    /\ db.head = db.tail + 1

====
